---- MODULE Spec2Model ----
(***************************************************************************)
(* A model of fretboard.py: the Accidental / Note value types, semitone    *)
(* stepping, the scale builders, the scale registry, the scale-name        *)
(* normaliser and the command-line driver.                                 *)
(*                                                                         *)
(* Python strings are sequences of one-character strings.  The three       *)
(* accidental symbols are not ASCII; they are written by code point:       *)
(* "U+266D" (flat sign), "U+266E" (natural sign), "U+266F" (sharp sign).   *)
(***************************************************************************)
EXTENDS Naturals, Sequences, FiniteSets

VARIABLES
    \* ---- command-line driver (main) ----
    argv,       \* the command line as parsed by argparse: [scale, time]
    args,       \* the args namespace, whose .scale main() reassigns
    pc,         \* main()'s position
    scale,      \* the local `scale`, bound by the registry lookup
    out,        \* stdout: the sequence of printed lines
    kidx,       \* position of the `for k in SCALES` loop
    exitCode,   \* the process's exit status once it has exited
    SCALES,     \* the module-level registry, an insertion-ordered dict
    \* ---- one call of applyNTimes(semitone_above, x, n) ----
    stX, stN, stState, stI, stPc, stResult,
    \* ---- one call of Note(...) followed by a scale builder ----
    tonicArg, tonic, built, bkind,
    \* ---- one call of normalize_scale_name ----
    name, result, normPc

driverVars == <<argv, args, pc, scale, out, kidx, exitCode>>
stepVars   == <<stX, stN, stState, stI, stPc, stResult>>
scaleVars  == <<tonicArg, tonic, built, bkind>>
normVars   == <<name, result, normPc>>
vars == <<argv, args, pc, scale, out, kidx, exitCode, SCALES,
          stX, stN, stState, stI, stPc, stResult,
          tonicArg, tonic, built, bkind, name, result, normPc>>

-----------------------------------------------------------------------------
(* Bounds of the model.                                                    *)

\* longest generated scale-name string
MaxLen == 3
\* loop iterations of main() whose output is recorded
MaxIter == 2
\* largest n of a semitones_above(note, n) call
MaxK == 13

-----------------------------------------------------------------------------
(* Characters and the str methods the program uses.                        *)

UpperLetters == <<"A","B","C","D","E","F","G","H","I","J","K","L","M",
                  "N","O","P","Q","R","S","T","U","V","W","X","Y","Z">>
LowerLetters == <<"a","b","c","d","e","f","g","h","i","j","k","l","m",
                  "n","o","p","q","r","s","t","u","v","w","x","y","z">>

IndexIn(seq, c) == CHOOSE i \in 1..Len(seq) : seq[i] = c
IsIn(seq, c) == \E i \in 1..Len(seq) : seq[i] = c

\* ord() and chr() on the Latin letters
Ord(c) == IF IsIn(UpperLetters, c) THEN 64 + IndexIn(UpperLetters, c)
          ELSE 96 + IndexIn(LowerLetters, c)
Chr(n) == IF n >= 65 /\ n <= 90 THEN UpperLetters[n - 64]
          ELSE IF n >= 97 /\ n <= 122 THEN LowerLetters[n - 96]
          ELSE "?"

\* str.upper() / str.lower() on one character
UpperChar(c) == IF IsIn(LowerLetters, c) THEN UpperLetters[IndexIn(LowerLetters, c)] ELSE c
LowerChar(c) == IF IsIn(UpperLetters, c) THEN LowerLetters[IndexIn(UpperLetters, c)] ELSE c

\* str.upper() / str.lower() on a string
Upper(s) == [i \in 1..Len(s) |-> UpperChar(s[i])]
Lower(s) == [i \in 1..Len(s) |-> LowerChar(s[i])]

\* str.isspace() on one character
IsSpace(c) == c \in {" ", "\t", "\n"}

\* str.split() with no argument: the maximal runs of non-whitespace
RECURSIVE SplitFrom(_, _, _, _)
SplitFrom(s, i, cur, acc) ==
    IF i > Len(s)
    THEN IF cur = <<>> THEN acc ELSE Append(acc, cur)
    ELSE IF IsSpace(s[i])
         THEN SplitFrom(s, i + 1, <<>>, IF cur = <<>> THEN acc ELSE Append(acc, cur))
         ELSE SplitFrom(s, i + 1, Append(cur, s[i]), acc)
Split(s) == SplitFrom(s, 1, <<>>, <<>>)

\* sep.join(parts)
RECURSIVE Join(_, _)
Join(sep, parts) ==
    IF parts = <<>> THEN <<>>
    ELSE IF Len(parts) = 1 THEN parts[1]
    ELSE parts[1] \o sep \o Join(sep, Tail(parts))

\* str(int) of a natural number
RECURSIVE IntToStr(_)
IntToStr(n) ==
    LET digit == <<"0","1","2","3","4","5","6","7","8","9">>[(n % 10) + 1]
    IN IF n < 10 THEN <<digit>> ELSE Append(IntToStr(n \div 10), digit)

\* the string literals of the program
str_major     == <<"m","a","j","o","r">>
str_minor     == <<"m","i","n","o","r">>
str_chromatic == <<"c","h","r","o","m","a","t","i","c">>

-----------------------------------------------------------------------------
(* Accidental                                                              *)

Accidental == {"flat", "natural", "sharp"}

\* the enum members' values
AccidentalValue(a) == CASE a = "flat" -> 0 [] a = "natural" -> 1 [] a = "sharp" -> 2

\* OrderedEnum.__lt__ between two Accidentals
Accidental_lt(a, b) == AccidentalValue(a) < AccidentalValue(b)

\* Accidental.__str__
Accidental_str(a) ==
    CASE a = "flat"    -> <<"U+266D">>
      [] a = "natural" -> <<"U+266E">>
      [] a = "sharp"   -> <<"U+266F">>

\* Accidental.str_omit_natural
Accidental_str_omit_natural(a) ==
    IF a = "natural" THEN <<>> ELSE Accidental_str(a)

-----------------------------------------------------------------------------
(* Constants of the program that Note needs                                *)

LETTER_NOTES  == <<"C","D","E","F","G","A","B">>
\* variant: E left out of the letters that take no sharp
CANT_BE_SHARP_onlyB == {"B"}
CANT_BE_SHARP == {"B", "E"}
CANT_BE_FLAT  == {"C", "F"}

-----------------------------------------------------------------------------
(* Note                                                                    *)

\* what a raised ValueError leaves in place of a value
ValueError == [raised |-> "ValueError"]

\* Note.__init__
Note(letter, accidental) ==
    LET up == UpperChar(letter)
    IN IF ~IsIn(LETTER_NOTES, up) THEN ValueError
       ELSE [letter |-> up, accidental |-> accidental]

next_letter(letter) ==
    IF letter = "G" THEN "A" ELSE Chr(Ord(letter) + 1)

\* Note.__eq__
Note_eq(a, b) == <<a.letter, a.accidental>> = <<b.letter, b.accidental>>

\* variant: the tuple compared as (accidental, letter)
Note_lt_accidentalFirst(a, b) ==
    IF a.accidental # b.accidental THEN Accidental_lt(a.accidental, b.accidental)
    ELSE Ord(a.letter) < Ord(b.letter)

\* Note.__lt__: the tuples (letter, accidental) compared lexicographically,
\* letters as strings, accidentals by OrderedEnum.__lt__
Note_lt(a, b) ==
    IF a.letter # b.letter THEN Ord(a.letter) < Ord(b.letter)
    ELSE Accidental_lt(a.accidental, b.accidental)

\* Note.str_omit_natural
Note_str_omit_natural(n) == <<n.letter>> \o Accidental_str_omit_natural(n.accidental)

\* variant: a sharp resolves to the natural of its own letter
semitone_above_sameLetter(n) ==
    CASE n.accidental = "natural" ->
            IF n.letter \notin CANT_BE_SHARP
            THEN Note(n.letter, "sharp")
            ELSE Note(next_letter(n.letter), "natural")
      [] n.accidental = "sharp" -> Note(n.letter, "natural")
      [] n.accidental = "flat"  -> Note(n.letter, "natural")

\* variant: every natural is sharpened, B and E included
semitone_above_alwaysSharp(n) ==
    CASE n.accidental = "natural" -> Note(n.letter, "sharp")
      [] n.accidental = "sharp" -> Note(next_letter(n.letter), "natural")
      [] n.accidental = "flat"  -> Note(n.letter, "natural")

\* Note.semitone_above
semitone_above(n) ==
    CASE n.accidental = "natural" ->
            IF n.letter \notin CANT_BE_SHARP
            THEN Note(n.letter, "sharp")
            ELSE Note(next_letter(n.letter), "natural")
      [] n.accidental = "sharp" -> Note(next_letter(n.letter), "natural")
      [] n.accidental = "flat"  -> Note(n.letter, "natural")

\* applyNTimes(f, x, n), whose only caller passes
\* f = lambda note: note.semitone_above()
RECURSIVE applyNTimesFrom(_, _, _)
applyNTimesFrom(state, i, n) ==
    IF i >= n THEN state ELSE applyNTimesFrom(semitone_above(state), i + 1, n)
\* variant: the loop runs over range(1, n)
applyNTimes_fromOne(x, n) == applyNTimesFrom(x, 1, n)
applyNTimes(x, n) == applyNTimesFrom(x, 0, n)

\* Note.semitones_above
semitones_above(n, k) == applyNTimes(n, k)

-----------------------------------------------------------------------------
(* Scale builders                                                          *)

\* variant: the fourth degree 6 semitones up
major_scale_raisedFourth(t) ==
    << t,
       semitones_above(t, 2),
       semitones_above(t, 4),
       semitones_above(t, 6),
       semitones_above(t, 7),
       semitones_above(t, 9),
       semitones_above(t, 11) >>

major_scale(t) ==
    << t,
       semitones_above(t, 2),
       semitones_above(t, 4),
       semitones_above(t, 5),
       semitones_above(t, 7),
       semitones_above(t, 9),
       semitones_above(t, 11) >>

natural_minor_scale(t) ==
    << t,
       semitones_above(t, 2),
       semitones_above(t, 3),
       semitones_above(t, 5),
       semitones_above(t, 7),
       semitones_above(t, 8),
       semitones_above(t, 10) >>

-----------------------------------------------------------------------------
(* list, set, sorted and dict                                              *)

Range(seq) == {seq[i] : i \in 1..Len(seq)}

\* [e(x) for x in seq if keep(x)]
RECURSIVE SelectLetters(_, _)
SelectLetters(seq, excluded) ==
    IF seq = <<>> THEN <<>>
    ELSE IF Head(seq) \in excluded THEN SelectLetters(Tail(seq), excluded)
    ELSE <<Head(seq)>> \o SelectLetters(Tail(seq), excluded)

NotesOf(letters, accidental) == [i \in 1..Len(letters) |-> Note(letters[i], accidental)]

\* sorted(list) of Notes: ascending by Note.__lt__, stable
RECURSIVE InsertSorted(_, _)
InsertSorted(sorted, x) ==
    IF sorted = <<>> THEN <<x>>
    ELSE IF Note_lt(x, Head(sorted)) THEN <<x>> \o sorted
    ELSE <<Head(sorted)>> \o InsertSorted(Tail(sorted), x)
RECURSIVE Sorted(_)
Sorted(seq) ==
    IF seq = <<>> THEN <<>>
    ELSE InsertSorted(Sorted(SubSeq(seq, 1, Len(seq) - 1)), seq[Len(seq)])

\* the elements of a set in the order iteration yields them; sorted() of a set
RECURSIVE SetToSeq(_)
SetToSeq(S) ==
    IF S = {} THEN <<>>
    ELSE LET x == CHOOSE y \in S : TRUE IN <<x>> \o SetToSeq(S \ {x})
SortedSet(S) == Sorted(SetToSeq(S))

\* a dict is the sequence of its (key, value) items in insertion order
DictKeys(d) == [i \in 1..Len(d) |-> d[i].k]
DictHas(d, key) == \E i \in 1..Len(d) : d[i].k = key
DictGet(d, key) == d[CHOOSE i \in 1..Len(d) : d[i].k = key].v

\* d1 | d2
RECURSIVE DictMerge(_, _)
DictMerge(d1, d2) ==
    IF d2 = <<>> THEN d1
    ELSE LET it == Head(d2)
             upd == IF DictHas(d1, it.k)
                    THEN [i \in 1..Len(d1) |-> IF d1[i].k = it.k THEN it ELSE d1[i]]
                    ELSE Append(d1, it)
         IN DictMerge(upd, Tail(d2))

-----------------------------------------------------------------------------
(* CONSTANTS of the program                                                *)

ALL_NOTES_SHARPS ==
    Sorted(NotesOf(LETTER_NOTES, "natural")
           \o NotesOf(SelectLetters(LETTER_NOTES, CANT_BE_SHARP), "sharp"))

ALL_NOTES_FLATS ==
    Sorted(NotesOf(LETTER_NOTES, "natural")
           \o NotesOf(SelectLetters(LETTER_NOTES, CANT_BE_FLAT), "flat"))

ALL_NOTES == SortedSet(Range(ALL_NOTES_SHARPS) \union Range(ALL_NOTES_FLATS))

MAJOR_SCALES ==
    [i \in 1..Len(LETTER_NOTES) |->
        [k |-> <<LETTER_NOTES[i]>> \o <<" ">> \o str_major,
         v |-> major_scale(Note(LETTER_NOTES[i], "natural"))]]

NATURAL_MINOR_SCALES ==
    [i \in 1..Len(LETTER_NOTES) |->
        [k |-> <<LETTER_NOTES[i]>> \o <<" ">> \o str_minor,
         v |-> natural_minor_scale(Note(LETTER_NOTES[i], "natural"))]]

SCALES_value ==
    DictMerge(DictMerge(<<[k |-> str_chromatic, v |-> ALL_NOTES]>>, MAJOR_SCALES),
              NATURAL_MINOR_SCALES)

-----------------------------------------------------------------------------
(* normalize_scale_name                                                    *)

\* variant: the joined two-token name uppercased whole
normalize_scale_name_upperAll(nm) ==
    IF nm = str_chromatic THEN nm
    ELSE IF Len(nm) = 1 THEN Upper(nm) \o <<" ">> \o str_major
    ELSE IF Len(nm) = 2 /\ nm[2] = "m" THEN Upper(<<nm[1]>>) \o <<" ">> \o str_minor
    ELSE LET parts == Split(nm)
         IN IF Len(parts) # 2
            THEN nm
            ELSE Upper(Join(<<" ">>, <<parts[1], parts[2]>>))

normalize_scale_name(nm) ==
    IF nm = str_chromatic THEN nm
    ELSE IF Len(nm) = 1 THEN Upper(nm) \o <<" ">> \o str_major
    ELSE IF Len(nm) = 2 /\ nm[2] = "m" THEN Upper(<<nm[1]>>) \o <<" ">> \o str_minor
    ELSE LET parts == Split(nm)
         IN IF Len(parts) # 2
            THEN nm   \* the unpacking raised ValueError, caught: return name
            ELSE Join(<<" ">>, <<Upper(parts[1]), parts[2]>>)

-----------------------------------------------------------------------------
(* Inputs                                                                  *)

Alphabet == {"c", "F", "m", " ", "\t"}
Generated == UNION {[1..n -> Alphabet] : n \in 0..MaxLen}
Samples ==
    { str_chromatic,
      <<"C","h","r","o","m","a","t","i","c">>,
      <<"x","y","z">>,
      <<"f"," ","m","a","j","o","r">>,
      <<"F"," ","m","a","j","o","r">>,
      <<"F"," ","M","a","j","o","r">>,
      <<"c"," ","M","I","N","O","R">>,
      <<"g"," "," ","m","i","n","o","r">>,
      <<"h"," ","m","i","n","o","r">>,
      <<"a"," ","m","a","j","o","r"," ","x">>,
      <<"b">>, <<"E","m">> }
Names == Generated \union Samples
Times == {1, 30}

AllNotes == [letter : Range(LETTER_NOTES), accidental : Accidental]
RawLetters == Range(LETTER_NOTES) \union {LowerChar(c) : c \in Range(LETTER_NOTES)}
                \union {"H", "h"}

NoneVal == [none |-> TRUE]

-----------------------------------------------------------------------------
(* main                                                                    *)

ApologyLine == <<"Sorry, I don't know about that scale yet. Here are the scales I know about:">>
KeyLine(key) == <<"-", " ">> \o key
BannerLine(sc, t) ==
    <<"Choosing a random note from the ">> \o sc \o <<" scale every ">>
        \o IntToStr(t) \o <<" seconds.">>

\* what main() cannot touch
DriverFrame == UNCHANGED <<SCALES, stepVars, scaleVars, normVars>>

DriverInit ==
    /\ argv \in [scale : Names, time : Times]
    /\ args = argv
    /\ pc = "lower"
    /\ scale = NoneVal
    /\ out = <<>>
    /\ kidx = 0
    /\ exitCode = NoneVal

DriverIdle ==
    /\ argv = NoneVal /\ args = NoneVal /\ pc = "idle" /\ scale = NoneVal
    /\ out = <<>> /\ kidx = 0 /\ exitCode = NoneVal

\* variant: the argument is not lowercased
LowerScale_skipped ==
    /\ pc = "lower"
    /\ pc' = "normalize"
    /\ UNCHANGED <<argv, args, scale, out, kidx, exitCode>>
    /\ DriverFrame

\* args.scale = args.scale.lower()
LowerScale ==
    /\ pc = "lower"
    /\ args' = [args EXCEPT !.scale = Lower(args.scale)]
    /\ pc' = "normalize"
    /\ UNCHANGED <<argv, scale, out, kidx, exitCode>>
    /\ DriverFrame

\* args.scale = normalize_scale_name(args.scale)
Normalize ==
    /\ pc = "normalize"
    /\ args' = [args EXCEPT !.scale = normalize_scale_name(args.scale)]
    /\ pc' = "lookup"
    /\ UNCHANGED <<argv, scale, out, kidx, exitCode>>
    /\ DriverFrame

\* if args.scale in SCALES: scale = SCALES[args.scale]
LookupFound ==
    /\ pc = "lookup"
    /\ DictHas(SCALES, args.scale)
    /\ scale' = DictGet(SCALES, args.scale)
    /\ pc' = "banner"
    /\ UNCHANGED <<argv, args, out, kidx, exitCode>>
    /\ DriverFrame

\* else: print("Sorry, ...")
LookupMissing ==
    /\ pc = "lookup"
    /\ ~DictHas(SCALES, args.scale)
    /\ out' = Append(out, ApologyLine)
    /\ kidx' = 1
    /\ pc' = "list"
    /\ UNCHANGED <<argv, args, scale, exitCode>>
    /\ DriverFrame

\* for k in SCALES: print("- " + k)
ListKey ==
    /\ pc = "list"
    /\ kidx <= Len(SCALES)
    /\ out' = Append(out, KeyLine(DictKeys(SCALES)[kidx]))
    /\ kidx' = kidx + 1
    /\ UNCHANGED <<argv, args, pc, scale, exitCode>>
    /\ DriverFrame

\* variant: sys.exit(1)
Exit_statusOne ==
    /\ pc = "list"
    /\ kidx > Len(SCALES)
    /\ pc' = "exited"
    /\ exitCode' = 1
    /\ UNCHANGED <<argv, args, scale, out, kidx>>
    /\ DriverFrame

\* sys.exit()
Exit ==
    /\ pc = "list"
    /\ kidx > Len(SCALES)
    /\ pc' = "exited"
    /\ exitCode' = 0
    /\ UNCHANGED <<argv, args, scale, out, kidx>>
    /\ DriverFrame

\* print(f"Choosing a random note from the {args.scale} scale every {args.time} seconds.")
Banner ==
    /\ pc = "banner"
    /\ out' = Append(out, BannerLine(args.scale, args.time))
    /\ pc' = "choose"
    /\ UNCHANGED <<argv, args, scale, kidx, exitCode>>
    /\ DriverFrame

\* print(random.choice(scale).str_omit_natural())
PrintNote ==
    /\ pc = "choose"
    /\ Len(out) < 1 + 2 * MaxIter
    /\ \E i \in 1..Len(scale) :
          out' = Append(out, Note_str_omit_natural(scale[i]))
    /\ pc' = "blank"
    /\ UNCHANGED <<argv, args, scale, kidx, exitCode>>
    /\ DriverFrame

\* print("")
PrintBlank ==
    /\ pc = "blank"
    /\ out' = Append(out, <<>>)
    /\ pc' = "sleep"
    /\ UNCHANGED <<argv, args, scale, kidx, exitCode>>
    /\ DriverFrame

\* variant: the loop is left after the sleep
Sleep_thenReturn ==
    /\ pc = "sleep"
    /\ pc' = "exited"
    /\ exitCode' = 0
    /\ UNCHANGED <<argv, args, scale, out, kidx>>
    /\ DriverFrame

\* sleep(args.time), then the next iteration of `while True`
Sleep ==
    /\ pc = "sleep"
    /\ pc' = "choose"
    /\ UNCHANGED <<argv, args, scale, out, kidx, exitCode>>
    /\ DriverFrame

-----------------------------------------------------------------------------
(* One call of applyNTimes(lambda note: note.semitone_above(), x, n)       *)

StepFrame == UNCHANGED <<SCALES, driverVars, scaleVars, normVars>>

StepInit ==
    /\ stX \in AllNotes
    /\ stN \in 0..MaxK
    /\ stState = stX
    /\ stI = 0
    /\ stPc = "loop"
    /\ stResult = NoneVal

StepIdle ==
    /\ stX = NoneVal /\ stN = 0 /\ stState = NoneVal /\ stI = 0
    /\ stPc = "idle" /\ stResult = NoneVal

\* for i in range(n): state = f(state)
LoopBody ==
    /\ stPc = "loop"
    /\ stI < stN
    /\ stState' = semitone_above(stState)
    /\ stI' = stI + 1
    /\ UNCHANGED <<stX, stN, stPc, stResult>>
    /\ StepFrame

\* return state
LoopReturn ==
    /\ stPc = "loop"
    /\ stI >= stN
    /\ stResult' = stState
    /\ stPc' = "done"
    /\ UNCHANGED <<stX, stN, stState, stI>>
    /\ StepFrame

-----------------------------------------------------------------------------
(* One Note(letter, accidental) and a scale built on it                    *)

ScaleFrame == UNCHANGED <<SCALES, driverVars, stepVars, normVars>>

ScaleInit ==
    /\ tonicArg \in [letter : RawLetters, accidental : Accidental]
    /\ tonic = NoneVal
    /\ built = <<>>
    /\ bkind = "args"

ScaleIdle ==
    /\ tonicArg = NoneVal /\ tonic = NoneVal /\ built = <<>> /\ bkind = "idle"

Construct ==
    /\ bkind = "args"
    /\ tonic' = Note(tonicArg.letter, tonicArg.accidental)
    /\ bkind' = "note"
    /\ UNCHANGED <<tonicArg, built>>
    /\ ScaleFrame

BuildMajor ==
    /\ bkind = "note"
    /\ tonic # ValueError
    /\ built' = major_scale(tonic)
    /\ bkind' = "major"
    /\ UNCHANGED <<tonicArg, tonic>>
    /\ ScaleFrame

BuildMinor ==
    /\ bkind = "note"
    /\ tonic # ValueError
    /\ built' = natural_minor_scale(tonic)
    /\ bkind' = "minor"
    /\ UNCHANGED <<tonicArg, tonic>>
    /\ ScaleFrame

-----------------------------------------------------------------------------
(* One call of normalize_scale_name(name)                                  *)

NormFrame == UNCHANGED <<SCALES, driverVars, stepVars, scaleVars>>

NormInit ==
    /\ name \in Names
    /\ result = NoneVal
    /\ normPc = "call"

NormIdle == name = NoneVal /\ result = NoneVal /\ normPc = "idle"

CallNormalize ==
    /\ normPc = "call"
    /\ result' = normalize_scale_name(name)
    /\ normPc' = "returned"
    /\ UNCHANGED name
    /\ NormFrame

-----------------------------------------------------------------------------
(* Specifications                                                          *)

\* the driver, from the parsed command line on
Init == SCALES = SCALES_value /\ DriverInit /\ StepIdle /\ ScaleIdle /\ NormIdle
Next ==
    \/ LowerScale \/ Normalize \/ LookupFound \/ LookupMissing \/ ListKey
    \/ Exit \/ Banner \/ PrintNote \/ PrintBlank \/ Sleep
Spec == Init /\ [][Next]_vars

\* semitone stepping
InitStep == SCALES = SCALES_value /\ DriverIdle /\ StepInit /\ ScaleIdle /\ NormIdle
NextStep == LoopBody \/ LoopReturn
SpecStep == InitStep /\ [][NextStep]_vars

\* scale construction
InitScale == SCALES = SCALES_value /\ DriverIdle /\ StepIdle /\ ScaleInit /\ NormIdle
NextScale == Construct \/ BuildMajor \/ BuildMinor
SpecScale == InitScale /\ [][NextScale]_vars

\* the normaliser on arbitrary names
InitNorm == SCALES = SCALES_value /\ DriverIdle /\ StepIdle /\ ScaleIdle /\ NormInit
NextNorm == CallNormalize
SpecNorm == InitNorm /\ [][NextNorm]_vars

-----------------------------------------------------------------------------
(* Vocabulary of the properties                                            *)

Nat_(l)   == [letter |-> l, accidental |-> "natural"]
Sharp_(l) == [letter |-> l, accidental |-> "sharp"]
Flat_(l)  == [letter |-> l, accidental |-> "flat"]

Letters == {"A", "B", "C", "D", "E", "F", "G"}

\* the twelve sharp-spelled notes
Sharp12 == {Nat_(l) : l \in Letters} \union {Sharp_(l) : l \in {"C", "D", "F", "G", "A"}}
\* the five flat-spelled notes of the chromatic set
Flat5 == {Flat_(l) : l \in {"D", "E", "G", "A", "B"}}

\* the order of the Note values: letter A<B<...<G, then flat<natural<sharp
LetterRank(l) ==
    CASE l = "A" -> 1 [] l = "B" -> 2 [] l = "C" -> 3 [] l = "D" -> 4
      [] l = "E" -> 5 [] l = "F" -> 6 [] l = "G" -> 7
AccRank(a) == CASE a = "flat" -> 1 [] a = "natural" -> 2 [] a = "sharp" -> 3
NoteBefore(a, b) ==
    \/ LetterRank(a.letter) < LetterRank(b.letter)
    \/ a.letter = b.letter /\ AccRank(a.accidental) < AccRank(b.accidental)

Ascending(seq) == \A i \in 1..Len(seq) : \A j \in 1..Len(seq) : i < j => NoteBefore(seq[i], seq[j])

\* pitch classes, C = 0, C sharp = 1, ..., B = 11
LetterPitch(l) ==
    CASE l = "C" -> 0 [] l = "D" -> 2 [] l = "E" -> 4 [] l = "F" -> 5
      [] l = "G" -> 7 [] l = "A" -> 9 [] l = "B" -> 11
Pitch(n) == (LetterPitch(n.letter) + 11 + AccRank(n.accidental) - 1) % 12

\* the cyclic successor of a letter
LetterAfter(l) ==
    CASE l = "A" -> "B" [] l = "B" -> "C" [] l = "C" -> "D" [] l = "D" -> "E"
      [] l = "E" -> "F" [] l = "F" -> "G" [] l = "G" -> "A"

\* the registry keys
MajorKey(l) == <<l, " ", "m", "a", "j", "o", "r">>
MinorKey(l) == <<l, " ", "m", "i", "n", "o", "r">>
RegistryKeys == {str_chromatic} \union {MajorKey(l) : l \in Letters}
                    \union {MinorKey(l) : l \in Letters}

\* the whitespace-separated tokens of a string, by position
TokenStarts(s) == {i \in 1..Len(s) : ~IsSpace(s[i]) /\ (i = 1 \/ IsSpace(s[i - 1]))}
TokenAt(s, i) ==
    LET j == CHOOSE e \in i..Len(s) :
                 /\ \A q \in i..e : ~IsSpace(s[q])
                 /\ (e = Len(s) \/ IsSpace(s[e + 1]))
    IN SubSeq(s, i, j)
FirstToken(s)  == TokenAt(s, CHOOSE i \in TokenStarts(s) : \A j \in TokenStarts(s) : i <= j)
SecondToken(s) == TokenAt(s, CHOOSE i \in TokenStarts(s) : \A j \in TokenStarts(s) : i >= j)

\* what the normaliser is specified to return
Normalized(nm) ==
    IF nm = str_chromatic THEN nm
    ELSE IF Len(nm) = 1 THEN MajorKey(UpperChar(nm[1]))
    ELSE IF Len(nm) = 2 /\ nm[2] = "m" THEN MinorKey(UpperChar(nm[1]))
    ELSE IF Cardinality(TokenStarts(nm)) = 2
         THEN Upper(FirstToken(nm)) \o <<" ">> \o SecondToken(nm)
    ELSE nm

\* main()'s positions inside `while True`, and after the unknown-scale branch
Running == {"choose", "blank", "sleep"}
Listing == {"list", "exited"}

\* the text main() prints for a note
NoteText(n) ==
    <<n.letter>> \o (CASE n.accidental = "flat"    -> <<"U+266D">>
                       [] n.accidental = "natural" -> <<>>
                       [] n.accidental = "sharp"   -> <<"U+266F">>)

IsBanner(line) == Len(line) >= 1 /\ line[1] = "Choosing a random note from the "

-----------------------------------------------------------------------------
(* Properties of the driver and the registry (specification Spec)          *)

Chromatic == DictGet(SCALES, str_chromatic)
Distinct(seq) == \A i \in 1..Len(seq) : \A j \in 1..Len(seq) : i # j => seq[i] # seq[j]

\* C1 as stated: the chromatic registry entry holds exactly 21 pairwise
\* distinct Notes, sorted ascending by the Note order.
C1_Stated ==
    /\ Len(Chromatic) = 21
    /\ Distinct(Chromatic)
    /\ Ascending(Chromatic)

\* C1: the chromatic registry entry holds exactly 17 pairwise distinct Notes
\* (the 7 naturals, the 5 sharps C D F G A and the 5 flats D E G A B), sorted
\* ascending by the Note order (letter A<B<...<G, then flat<natural<sharp).
C1_Chromatic ==
    /\ Len(Chromatic) = 17
    /\ Distinct(Chromatic)
    /\ Range(Chromatic) = Sharp12 \union Flat5
    /\ Ascending(Chromatic)

\* the driver, started on the chromatic scale, has bound it and printed from it
C1_Witness ==
    /\ argv.scale = str_chromatic
    /\ pc = "sleep"
    /\ scale = Chromatic
    /\ Len(scale) = 17
    /\ out[2] = <<"B", "U+266D">>

\* the command line -s c -t 1
C2_Case == argv = [scale |-> <<"c">>, time |-> 1]

C2_Banner ==
    <<"Choosing a random note from the ", "C", " ", "m", "a", "j", "o", "r",
      " scale every ", "1", " seconds.">>

\* the shape of the output of -s c -t 1 when the notes are drawn from `notes`
C2_Output(notes) ==
    /\ pc \notin Listing
    /\ pc \in Running => Len(out) >= 1
    /\ Len(out) >= 1 => out[1] = C2_Banner
    /\ \A i \in 2..Len(out) :
          IF i % 2 = 0 THEN out[i] \in {NoteText(n) : n \in notes}
                       ELSE out[i] = <<>>
    /\ pc \in {"sleep", "choose"} => Len(out) % 2 = 1

\* C2 as stated: with scale="c", time=1 the banner names "C major" and 1, and
\* every printed note is one of C, D, E, F sharp, G, A, B, each followed by a
\* blank line.
C2_Stated ==
    C2_Case => C2_Output({Nat_("C"), Nat_("D"), Nat_("E"), Sharp_("F"),
                          Nat_("G"), Nat_("A"), Nat_("B")})

\* C2: with scale="c", time=1 the banner names "C major" and 1, and every
\* printed note is one of C, D, E, F, G, A, B (all natural), each followed by
\* a blank line.
C2_CMajor ==
    C2_Case => C2_Output({Nat_(l) : l \in Letters})

\* -s c -t 1 has printed the banner, then F and another note, each with its blank line
C2_Witness ==
    /\ C2_Case
    /\ pc = "sleep"
    /\ Len(out) = 5
    /\ out[2] = <<"F">>
    /\ out[3] = <<>>

\* the scale argument does not name a registry scale
C3_Case == Normalized(Lower(argv.scale)) \notin RegistryKeys

\* C3: for a scale argument whose lowercased, normalised name is no registry
\* key, the driver prints the apology, then every registry key once, each
\* prefixed "- ", and exits with status 0 (until it has exited it always has
\* a next step); it prints no banner and no note and never reaches the loop.
C3_UnknownScale ==
    C3_Case =>
        /\ pc \notin {"banner"} \union Running
        /\ scale = NoneVal
        /\ \A i \in 1..Len(out) :
              /\ ~IsBanner(out[i])
              /\ out[i] \notin {NoteText(n) : n \in AllNotes}
              /\ i = 1 => out[i] = ApologyLine
              /\ i > 1 => \E key \in RegistryKeys : out[i] = <<"-", " ">> \o key
        /\ pc \in Listing => Len(out) >= 1
        /\ pc # "exited" => ENABLED Next
        /\ pc = "exited" =>
              /\ exitCode = 0
              /\ Len(out) = 1 + Cardinality(RegistryKeys)
              /\ \A key \in RegistryKeys :
                    Cardinality({i \in 1..Len(out) : out[i] = <<"-", " ">> \o key}) = 1

\* -s xyz has listed the 15 keys and exited
C3_Witness ==
    /\ argv.scale = <<"x", "y", "z">>
    /\ pc = "exited"
    /\ Len(out) = 16
    /\ out[2] = <<"-", " ">> \o str_chromatic

\* a "{letter} {quality}" argument: a note letter in either case, and a
\* quality that reads major or minor once case is ignored
C6_TwoTokens ==
    /\ Cardinality(TokenStarts(argv.scale)) = 2
    /\ Len(FirstToken(argv.scale)) = 1
    /\ UpperChar(FirstToken(argv.scale)[1]) \in Letters
    /\ Lower(SecondToken(argv.scale)) \in {str_major, str_minor}
C6_QualityNotLowercase == SecondToken(argv.scale) \notin {str_major, str_minor}

\* the registry scale a "{letter} {quality}" argument corresponds to
C6_Entry ==
    LET l == UpperChar(FirstToken(argv.scale)[1])
    IN IF Lower(SecondToken(argv.scale)) = str_major
       THEN DictGet(SCALES, MajorKey(l)) ELSE DictGet(SCALES, MinorKey(l))

\* C6 as stated: a "{letter} {quality}" argument whose quality is not exactly
\* lowercase major or minor does not resolve and takes the unknown-scale path.
C6_Stated ==
    (C6_TwoTokens /\ C6_QualityNotLowercase) =>
        /\ pc \notin {"banner"} \union Running
        /\ scale = NoneVal

\* C6: at the command line the whole scale argument is case-insensitive: a
\* "{letter} {quality}" argument whose quality is major or minor in any mix of
\* case, with the letter in either case, resolves to the corresponding
\* registry scale and never takes the unknown-scale path.
C6_CaseInsensitive ==
    C6_TwoTokens =>
        /\ pc \notin Listing
        /\ pc \in {"banner"} \union Running => scale = C6_Entry

\* -s "c MINOR" runs on the C minor scale
C6_Witness ==
    /\ argv.scale = <<"c", " ", "M", "I", "N", "O", "R">>
    /\ pc = "blank"
    /\ scale = DictGet(SCALES, MinorKey("C"))
    /\ out[2] = <<"D", "U+266F">>

\* what holds of every state inside the loop
C9_Loop ==
    pc \in Running =>
        /\ DictHas(SCALES, args.scale)
        /\ scale = DictGet(SCALES, args.scale)
        /\ Len(out) >= 1
        /\ out[1] = BannerLine(args.scale, args.time)
        /\ \A i \in 2..Len(out) :
              /\ ~IsBanner(out[i])
              /\ IF i % 2 = 0
                 THEN \E j \in 1..Len(scale) : out[i] = NoteText(scale[j])
                 ELSE out[i] = <<>>
        /\ (pc = "blank") = (Len(out) % 2 = 0)

\* what holds of every step
C9_Step ==
    /\ SCALES' = SCALES
    /\ pc = "banner" => pc' = "choose" /\ out' = <<BannerLine(args.scale, args.time)>>
    /\ pc \in Running =>
          /\ pc' \in Running
          /\ scale' = scale /\ args' = args
          /\ pc = "choose" => pc' = "blank" /\ Len(out') = Len(out) + 1
          /\ pc = "blank"  => pc' = "sleep" /\ out' = Append(out, <<>>)
          /\ pc = "sleep"  => pc' = "choose" /\ out' = out

-----------------------------------------------------------------------------
(* Properties of scale construction (specification SpecScale)              *)

MajorOffsets == <<0, 2, 4, 5, 7, 9, 11>>

\* `sc` is the major scale on the natural tonic `t`
C4_IsMajorOn(sc, t) ==
    /\ Len(sc) = 7
    /\ sc[1] = t
    /\ \A i \in 1..7 :
          /\ sc[i] \in AllNotes
          /\ Pitch(sc[i]) = (Pitch(t) + MajorOffsets[i]) % 12
    /\ Distinct(sc)

\* C4: for every natural tonic T, major_scale(T) has exactly 7 elements, its
\* first element is T, its i-th element lies [0,2,4,5,7,9,11][i] semitones
\* above T's pitch (mod 12), and the 7 notes are pairwise distinct; the
\* registry's "<T> major" entries are these scales.
C4_MajorScale ==
    /\ (bkind = "major" /\ tonic.accidental = "natural") => C4_IsMajorOn(built, tonic)
    /\ \A l \in Letters :
          /\ DictHas(SCALES, MajorKey(l))
          /\ C4_IsMajorOn(DictGet(SCALES, MajorKey(l)), Nat_(l))

\* major_scale(Note("b")) has been built: B, C#, D#, E, F#, G#, A#
C4_Witness ==
    /\ bkind = "major"
    /\ tonicArg = [letter |-> "b", accidental |-> "natural"]
    /\ tonic = Nat_("B")
    /\ built[2] = Sharp_("C")
    /\ built[4] = Nat_("E")
    /\ built[7] = Sharp_("A")

-----------------------------------------------------------------------------
(* Properties of the normaliser (specification SpecNorm)                   *)

\* C5: normalize_scale_name returns, checked in this order: "chromatic"
\* unchanged; for a 1-character name, its uppercase plus " major"; for a
\* 2-character name ending in 'm', the uppercase first character plus
\* " minor"; for a name of exactly two whitespace-separated tokens, the
\* uppercased first token, a space, and the second token as typed; any other
\* name unchanged.  The call returns this string for every input: no error
\* escapes it.
C5_Normalize ==
    normPc = "returned" => result = Normalized(name)

\* "F Major" came back as "F Major", quality case preserved
C5_Witness ==
    /\ normPc = "returned"
    /\ name = <<"F", " ", "M", "a", "j", "o", "r">>
    /\ result = <<"F", " ", "M", "a", "j", "o", "r">>

-----------------------------------------------------------------------------
(* Properties of semitone stepping (specification SpecStep)                *)

\* the note a semitone above, by the case split of the specification
C7_Above(n) ==
    CASE n.accidental = "natural" /\ n.letter \notin {"B", "E"} -> Sharp_(n.letter)
      [] n = Nat_("B") -> Nat_("C")
      [] n = Nat_("E") -> Nat_("F")
      [] n.accidental = "sharp" -> Nat_(LetterAfter(n.letter))
      [] n.accidental = "flat"  -> Nat_(n.letter)

\* C7: one semitone step takes a natural other than B and E to the sharp of
\* the same letter, B to C and E to F, any sharp to the natural of the next
\* letter (G sharp to A), any flat to the natural of the same letter; the
\* note stepped from is left as it was.
C7_SemitoneAbove ==
    [][stI' = stI + 1 => /\ stState' = C7_Above(stState)
                         /\ stX' = stX
                         /\ (stI = 0 => stState = stX)]_vars

\* G sharp has been stepped once, to A
C7_Witness ==
    /\ stX = Sharp_("G")
    /\ stI = 1
    /\ stState = Nat_("A")

\* C8: from each of the 21 Notes, every note reached by one or more semitone
\* steps is one of the 12 sharp-spelled notes (never a flat, never B sharp or
\* E sharp); so is every note of every major and natural-minor registry scale.
C8_OnlySharp12 ==
    /\ stI >= 1 => stState \in Sharp12
    /\ (stPc = "done" /\ stN >= 1) => stResult \in Sharp12
    /\ \A i \in 1..Len(SCALES) :
          SCALES[i].k # str_chromatic => Range(SCALES[i].v) \subseteq Sharp12

\* semitones_above(E sharp, 3) returned G
C8_Witness ==
    /\ stPc = "done"
    /\ stX = Sharp_("E")
    /\ stN = 3
    /\ stResult = Nat_("G")

\* C10: for each of the 12 sharp-spelled notes n, semitones_above(n, 12) = n,
\* semitones_above(n, 0) = n and semitones_above(n, k) # n for 0 < k < 12;
\* for a flat-spelled n, semitones_above(n, 12) # n.
C10_TwelveCycle ==
    stPc = "done" =>
        /\ stX \in Sharp12 =>
              /\ stN \in {0, 12} => stResult = stX
              /\ (0 < stN /\ stN < 12) => stResult # stX
        /\ (stX.accidental = "flat" /\ stN = 12) => stResult # stX

\* semitones_above(C sharp, 12) returned C sharp
C10_Witness ==
    /\ stPc = "done"
    /\ stX = Sharp_("C")
    /\ stN = 12
    /\ stI = 12
    /\ stResult = Sharp_("C")

====
